---- MODULE Spec2Model ----
(***************************************************************************)
(* A state-machine model of coolpup.py: the command-line run (argument     *)
(* validation, loci table conversion), the per-chromosome pileup tasks     *)
(* (window enumeration, extraction, accumulation) and the normalizer.      *)
(*                                                                         *)
(* Numbers.  Genomic coordinates are integers (base pairs); bins are       *)
(* integers.  A float of the program is a pair <<p, q>> with q >= 0        *)
(* standing for p/q: <<0, 0>> is NaN and <<p, 0>> with p > 0 is +inf, so   *)
(* that IEEE division (x/0 = inf, 0/0 = NaN, x/inf = 0, inf/inf = NaN)     *)
(* is plain cross-multiplication.  Contact values are never negative.      *)
(*                                                                         *)
(* A matrix is a record [nr, nc, at] with at a function on                 *)
(* (0..nr-1) \X (0..nc-1); a vector is a sequence.                         *)
(***************************************************************************)
EXTENDS Integers, Sequences, FiniteSets, TLC

\* ------------------------------------------------------------------ bounds

\* c.binsize of the cooler file, in base pairs
Res == 2
\* number of bins of every chromosome of the cooler file
NBins == 8
\* args.pad*1000//c.binsize, the half-width of a fixed-size window, in bins
PadBins == 1
\* the largest --nshifts tried
MaxShifts == 1
\* --minshift and --maxshift, in base pairs
MinShift == 2
MaxShift == 4
\* the largest --rescale_size tried
MaxRescaleSize == 6
\* the most rows of a loci table
MaxRows == 3
\* --rescale_pad (its default, 1.0)
RescalePad == 1

Chroms == {"chr1", "chr2"}
ChromOrder == <<"chr1", "chr2">>
\* every chromosome name a loci file or an anchor may hold: chr3 is not in
\* the cooler file
Names == Chroms \cup {"chr3"}

\* ----------------------------------------------------------------- helpers

Min(a, b) == IF a < b THEN a ELSE b
Max(a, b) == IF a > b THEN a ELSE b
Abs(a) == IF a < 0 THEN -a ELSE a

\* Python's seq[a:b] on a sequence of length n: the 0-based indices kept.
PyNorm(k, n) == IF k < 0 THEN Max(k + n, 0) ELSE Min(k, n)
PySliceLo(a, n) == PyNorm(a, n)
PySliceHi(a, b, n) == Max(PyNorm(a, n), PyNorm(b, n))
PySlice(s, a, b) ==
    LET lo == PySliceLo(a, Len(s))
        hi == PySliceHi(a, b, Len(s))
    IN  [k \in 1..(hi - lo) |-> s[lo + k]]

\* np.round(x/2) for an integer x: round half to even
RoundHalf(x) ==
    LET q == x \div 2
    IN  IF x % 2 = 0 THEN q
        ELSE IF q % 2 = 0 THEN q ELSE q + 1

\* ------------------------------------------------------------------ floats

NaN == <<0, 0>>
Inf == <<1, 0>>
Flt(k) == <<k, 1>>
IsNaN(x) == x[1] = 0 /\ x[2] = 0
IsInf(x) == x[1] # 0 /\ x[2] = 0
IsFinite(x) == x[2] # 0
\* IEEE division of non-negative floats, the quotient in lowest terms
RECURSIVE GCD(_, _)
GCD(a, b) == IF b = 0 THEN a ELSE GCD(b, a % b)
FDiv(x, y) ==
    LET pzero == x[1] = 0 \/ y[2] = 0
        qzero == x[2] = 0 \/ y[1] = 0
        g1 == GCD(x[1], y[1])
        g2 == GCD(x[2], y[2])
        p == (x[1] \div g1) * (y[2] \div g2)
        q == (x[2] \div g2) * (y[1] \div g1)
    IN  IF qzero THEN (IF pzero THEN NaN ELSE Inf)
        ELSE IF pzero THEN <<0, 1>>
        ELSE <<p \div GCD(p, q), q \div GCD(p, q)>>
\* np.nan_to_num on a float: NaN becomes 0
NanToNum(x) == IF IsNaN(x) THEN Flt(0) ELSE x

\* ---------------------------------------------------------------- matrices

Cells(h, w) == (0..(h - 1)) \X (0..(w - 1))
\* np.zeros((h, w))
Zeros(h, w) == [nr |-> h, nc |-> w, at |-> [ij \in Cells(h, w) |-> 0]]
MatSize(m) == m.nr * m.nc
SameShape(a, b) == a.nr = b.nr /\ a.nc = b.nc
\* a + b, elementwise, for two matrices of one shape
MatAdd(a, b) == [nr |-> a.nr, nc |-> a.nc, at |-> [ij \in Cells(a.nr, a.nc) |-> a.at[ij] + b.at[ij]]]

\* ------------------------------------------------ the contact matrix store

\* c.matrix(sparse=True, balance=...).fetch(chrom): a symmetric NBins x NBins
\* matrix.  chr1 is banded (contacts up to 4 bins apart) and its last bin is
\* masked (NaN, as balancing leaves it); chr2 is all ones.
FetchAt(chrom, i, j) ==
    IF chrom = "chr1"
    THEN IF i = NBins - 1 \/ j = NBins - 1 THEN NaN
         ELSE IF Abs(i - j) <= 4 THEN Flt(1) ELSE Flt(0)
    ELSE Flt(1)

\* c.matrix(sparse=True, balance=False).fetch(chrom): the raw counts, which
\* hold no NaN.  chr1 has the same band, chr2 a count of 2 everywhere.
FetchRaw(chrom, i, j) ==
    IF chrom = "chr1"
    THEN IF Abs(i - j) <= 4 THEN Flt(1) ELSE Flt(0)
    ELSE Flt(2)

\* get_data: the fetched matrix (balanced, or raw with unbalanced) as it is
\* (local), or its upper triangle from the second diagonal on
\* (sparse.triu(data, 2)).
get_data(chrom, unbalanced, local, i, j) ==
    LET v == IF unbalanced THEN FetchRaw(chrom, i, j) ELSE FetchAt(chrom, i, j)
    IN  IF local THEN v
        ELSE IF j - i >= 2 THEN v ELSE Flt(0)

\* lines 224-225: the coverage of every bin of the raw matrix get_data
\* returned, its column sum plus its row sum (a sequence, bin k-1 at k)
RECURSIVE SumTo(_, _)
SumTo(f, n) == IF n = 0 THEN 0 ELSE f[n] + SumTo(f, n - 1)
Coverage(chrom, local) ==
    [k \in 1..NBins |->
       SumTo([i \in 1..NBins |-> get_data(chrom, TRUE, local, i - 1, k - 1)[1]], NBins)
       + SumTo([j \in 1..NBins |-> get_data(chrom, TRUE, local, k - 1, j - 1)[1]], NBins)]

\* The expected table's balanced.avg column for a chromosome, after
\* np.nan_to_num: one value per diagonal, strictly decreasing here so that
\* a wrong distance shows.
ExpectedCurve(chrom) ==
    IF chrom \in Chroms THEN [k \in 1..NBins |-> NBins + 1 - k] ELSE <<>>

\* -------------------------------------------------------------- loci tables

Null == "null"
Row1(c, s, e) == [chr1 |-> c, start1 |-> s, end1 |-> e,
                  chr2 |-> Null, start2 |-> 0, end2 |-> 0]
Row2(c1, s1, e1, c2, s2, e2) == [chr1 |-> c1, start1 |-> s1, end1 |-> e1,
                                 chr2 |-> c2, start2 |-> s2, end2 |-> e2]
\* rows of a 3-column file; the fourth ends before it starts
SingleRows == { Row1("chr1", 2, 6), Row1("chr1", 7, 10), Row1("chr1", 10, 14),
                Row1("chr1", 12, 8), Row1("chr2", 4, 8) }
\* rows of a 6-column file; the third has end1 < start1, the fourth is
\* inter-chromosomal
PairRows == { Row2("chr1", 2, 6, "chr1", 10, 14), Row2("chr1", 6, 10, "chr1", 0, 8),
              Row2("chr1", 6, 2, "chr1", 10, 14), Row2("chr1", 2, 6, "chr2", 4, 8) }
\* the loci files tried: up to MaxRows rows of one kind, and at least one
Tables == { t \in (SUBSET SingleRows) \cup (SUBSET PairRows) :
              Cardinality(t) >= 1 /\ Cardinality(t) <= MaxRows }

\* rows in the order of sort_values: by chromosome(s), then start(s)
RowKey(r) == <<IF r.chr1 = "chr1" THEN 1 ELSE IF r.chr1 = "chr2" THEN 2 ELSE 3,
               IF r.chr2 = "chr1" THEN 1 ELSE IF r.chr2 = "chr2" THEN 2 ELSE 3,
               r.start1, r.start2>>
KeyLess(a, b) ==
    \E k \in 1..4 : a[k] < b[k] /\ \A l \in 1..(k - 1) : a[l] = b[l]
RECURSIVE SortRows(_)
SortRows(S) ==
    IF S = {} THEN <<>>
    ELSE LET r == CHOOSE x \in S : \A y \in S \ {x} : KeyLess(RowKey(x), RowKey(y))
         IN  <<r>> \o SortRows(S \ {r})

\* drop_duplicates: keep the first of equal rows
RECURSIVE DropDuplicates(_)
DropDuplicates(s) ==
    IF s = <<>> THEN <<>>
    ELSE LET init == DropDuplicates(SubSeq(s, 1, Len(s) - 1))
             last == s[Len(s)]
         IN  IF \E k \in 1..Len(init) : init[k] = last THEN init ELSE Append(init, last)

\* get_mids: the midpoint round((end+start)/2) and the width end-start of
\* every interval; Pad keeps widths/2 as the width itself (the halving is
\* done with the division by the resolution, see PadOf).
widths(s, e) == e - s
get_mids(rows, combs) ==
    LET srt == SortRows(rows)
    IN  DropDuplicates(
          [k \in 1..Len(srt) |->
             IF combs
             THEN [chr1 |-> srt[k].chr1,
                   Mids1 |-> RoundHalf(srt[k].end1 + srt[k].start1),
                   Width1 |-> widths(srt[k].start1, srt[k].end1),
                   chr2 |-> Null, Mids2 |-> 0, Width2 |-> 0]
             ELSE [chr1 |-> srt[k].chr1,
                   Mids1 |-> RoundHalf(srt[k].end1 + srt[k].start1),
                   Width1 |-> widths(srt[k].start1, srt[k].end1),
                   chr2 |-> srt[k].chr2,
                   Mids2 |-> RoundHalf(srt[k].end2 + srt[k].start2),
                   Width2 |-> widths(srt[k].start2, srt[k].end2)]])

\* (mids['Pad']//res).astype(int) with Pad = widths/2: floor(width/(2 res))
PadOf(width) == width \div (2 * Res)
\* (mids['Mids']//res).astype(int)
BinOf(mid) == mid \div Res

\* mids[mids['chr']==chrom] (chrom_mids): the rows of one chromosome
SelectChrom(ms, chrom) == SelectSeq(ms, LAMBDA r : r.chr1 = chrom)

\* ------------------------------------------------------- window enumeration
\* A window descriptor is <<bin1, bin2, pad1, pad2>>.

\* itertools.combinations(range(n), 2): the index pairs i < j in
\* lexicographic order
PairRank(i, j, n) ==
    Cardinality({ab \in (1..n) \X (1..n) :
                   ab[1] < ab[2] /\ (ab[1] < i \/ (ab[1] = i /\ ab[2] < j))}) + 1
IndexPairs(n) ==
    [k \in 1..((n * (n - 1)) \div 2) |->
       CHOOSE ab \in (1..n) \X (1..n) : ab[1] < ab[2] /\ PairRank(ab[1], ab[2], n) = k]

\* get_combinations past its first line: local, anchored or all pairs.
\* anchor is <<>> (None) or <<chrom, start, end>>.
get_combinationsSamePad(ms, local, anchor) ==
    LET m == [k \in 1..Len(ms) |-> BinOf(ms[k].Mids1)]
        p == [k \in 1..Len(ms) |-> PadOf(ms[k].Width1)]
        ij == IndexPairs(Len(ms))
    IN  IF local THEN [k \in 1..Len(ms) |-> <<m[k], m[k], p[k], p[k]>>]
        ELSE IF anchor # <<>>
        THEN [k \in 1..Len(ms) |-> <<(anchor[2] + anchor[3]) \div (2 * Res), m[k],
                                     RoundHalf(anchor[3] - anchor[2]), p[k]>>]
        ELSE [k \in 1..Len(ij) |-> <<m[ij[k][1]], m[ij[k][2]], p[ij[k][1]], p[ij[k][1]]>>]
get_combinations(ms, local, anchor) ==
    LET m == [k \in 1..Len(ms) |-> BinOf(ms[k].Mids1)]
        p == [k \in 1..Len(ms) |-> PadOf(ms[k].Width1)]
        ij == IndexPairs(Len(ms))
    IN  IF local THEN [k \in 1..Len(ms) |-> <<m[k], m[k], p[k], p[k]>>]
        ELSE IF anchor # <<>>
        THEN [k \in 1..Len(ms) |-> <<(anchor[2] + anchor[3]) \div (2 * Res), m[k],
                                     RoundHalf(anchor[3] - anchor[2]), p[k]>>]
        ELSE [k \in 1..Len(ij) |-> <<m[ij[k][1]], m[ij[k][2]], p[ij[k][1]], p[ij[k][2]]>>]

\* get_positions_pairs: one window per row of a two-sided table
get_positions_pairs(ms) ==
    [k \in 1..Len(ms) |-> <<BinOf(ms[k].Mids1), BinOf(ms[k].Mids2),
                            PadOf(ms[k].Width1), PadOf(ms[k].Width2)>>]

\* controlRegions: the signed shifts one draw can give.  The magnitude is
\* np.random.randint(minbin, maxbin); the sign is np.sign(random() - 0.5),
\* which is -1, 1 or (for a draw of exactly 0.5) 0.
ShiftSet(minshift, maxshift) ==
    { s * g : s \in (minshift \div Res)..((maxshift \div Res) - 1), g \in {-1, 0, 1} }
controlRegion(w, shift) == <<w[1] + shift, w[2] + shift, w[3], w[4]>>

\* ---------------------------------------------------------- expected matrix

\* np.pad(v, (k, 0), mode='reflect') for a non-empty v: the index of v that
\* lands at padded position pos (0-based); an axis of length 1 repeats its
\* only value
ReflectIdx(pos, k, n) ==
    IF n = 1 THEN 0
    ELSE LET r == Abs(pos - k) % (2 * (n - 1))
         IN  IF r <= n - 1 THEN r ELSE 2 * (n - 1) - r
PadReflect(v, k) == [q \in 1..(Len(v) + k) |-> v[ReflectIdx(q - 1, k, Len(v)) + 1]]
\* np.pad(v, (k, 0), mode='constant')
PadConstant(v, k) == [q \in 1..(Len(v) + k) |-> IF q <= k THEN 0 ELSE v[q - k]]

\* scipy.linalg.toeplitz(sub[i::-1], sub[i:]) with i = len(sub)//2: entry
\* (a, b) is sub[i - (a - b)] on and below the diagonal, sub[i + (b - a)]
\* above it
ToeplitzOf(sub) ==
    LET i == Len(sub) \div 2
        h == IF Len(sub) = 0 THEN 0 ELSE i + 1
        w == Len(sub) - i
    IN  [nr |-> IF w = 0 THEN 0 ELSE h, nc |-> IF h = 0 THEN 0 ELSE w,
         at |-> [ab \in Cells(h, w) |-> sub[i + ab[2] - ab[1] + 1]]]

\* get_expected_matrix raises when np.pad is asked to reflect an empty slice
ExpectedRaises(lo_left, hi_left, lo_right, hi_right, expected, local) ==
    /\ lo_right - hi_left + 1 < 0
    /\ local
    /\ PySlice(expected, 0, hi_right - lo_left) = <<>>
get_expected_matrixZeroPad(lo_left, hi_left, lo_right, hi_right, expected, local) ==
    LET exp_lo == lo_right - hi_left + 1
        exp_hi == hi_right - lo_left
    IN  IF exp_lo < 0
        THEN ToeplitzOf(PadConstant(PySlice(expected, 0, exp_hi), -exp_lo))
        ELSE ToeplitzOf(PySlice(expected, exp_lo, exp_hi))
get_expected_matrix(lo_left, hi_left, lo_right, hi_right, expected, local) ==
    LET exp_lo == lo_right - hi_left + 1
        exp_hi == hi_right - lo_left
    IN  IF exp_lo < 0
        THEN IF local
             THEN ToeplitzOf(PadReflect(PySlice(expected, 0, exp_hi), -exp_lo))
             ELSE ToeplitzOf(PadConstant(PySlice(expected, 0, exp_hi), -exp_lo))
        ELSE ToeplitzOf(PySlice(expected, exp_lo, exp_hi))

\* ------------------------------------------------- one window of _do_pileups

\* the swap that orders a window: the pads travel with their bins
SwapWindowBinsOnly(w) == IF w[1] > w[2] THEN <<w[2], w[1], w[3], w[4]>> ELSE w
SwapWindow(w) == IF w[1] > w[2] THEN <<w[2], w[1], w[4], w[3]>> ELSE w

\* stPad and endPad as the loop uses them: inflated by rescale_pad, or the
\* fixed pad
LoopPad(p, rescale) == IF rescale THEN p + RescalePad * 2 * p ELSE PadBins

\* A variant of the filter that admits the distance maxdist itself
PassesFilterInclusive(w, mindist, maxdist, local) ==
    \/ local
    \/ /\ mindist <= Abs(w[2] - w[1]) * Res
       /\ (IsInf(maxdist) \/ Abs(w[2] - w[1]) * Res * maxdist[2] <= maxdist[1])

\* mindist <= abs(endBin - stBin)*c.binsize < maxdist or local
\* (maxdist is a float: np.inf when --maxdist is not given)
PassesFilter(w, mindist, maxdist, local) ==
    \/ local
    \/ /\ mindist <= Abs(w[2] - w[1]) * Res
       /\ (IsInf(maxdist) \/ Abs(w[2] - w[1]) * Res * maxdist[2] < maxdist[1])

\* np.nan_to_num(data[lo_left:hi_left, lo_right:hi_right].toarray()), the
\* slices taken as Python takes them (a negative bound counts from the end,
\* a bound past the end is clipped)
Extract(chrom, unbalanced, local, lo_left, hi_left, lo_right, hi_right) ==
    LET r0 == PySliceLo(lo_left, NBins)
        c0 == PySliceLo(lo_right, NBins)
        h == PySliceHi(lo_left, hi_left, NBins) - r0
        w == PySliceHi(lo_right, hi_right, NBins) - c0
    IN  [nr |-> h, nc |-> w,
         at |-> [ij \in Cells(h, w) |->
                   NanToNum(get_data(chrom, unbalanced, local,
                                     r0 + ij[1], c0 + ij[2]))[1]]]
\* Whether a slice leaves the matrix: the sparse slicing of some library
\* builds checks its bounds and raises IndexError there, which the loop
\* catches (the window is skipped); others clip as above.
LeavesMatrix(lo, hi) == lo < 0 \/ hi > NBins \/ lo > hi

\* np.pad(newmap, [(y, 0), (0, x)], 'constant'): y rows of zeros on top, x
\* columns of zeros on the right
PadBlock(m, y, x) ==
    [nr |-> m.nr + y, nc |-> m.nc + x,
     at |-> [ij \in Cells(m.nr + y, m.nc + x) |->
               IF ij[1] >= y /\ ij[2] < m.nc THEN m.at[<<ij[1] - y, ij[2]>>] ELSE 0]]

\* numutils.zoomArray(newmap, (size, size)) for a non-empty block: the
\* library's interpolation is stood for by nearest-neighbour resampling
zoomArray(m, size) ==
    [nr |-> size, nc |-> size,
     at |-> [ij \in Cells(size, size) |->
               m.at[<<(ij[1] * m.nr) \div size, (ij[2] * m.nc) \div size>>]]]

\* make_outmap
make_outmap(rescale, rescale_size) ==
    IF rescale THEN Zeros(rescale_size, rescale_size)
    ELSE Zeros(2 * PadBins + 1, 2 * PadBins + 1)

\* lines 162-173: the block brought to the shape of the map
ShapeBlockOnes(newmap, rescale, rescale_size) ==
    LET shape == make_outmap(rescale, rescale_size)
    IN  IF rescale
        THEN IF MatSize(newmap) = 0
             THEN [nr |-> rescale_size, nc |-> rescale_size,
                   at |-> [ij \in Cells(rescale_size, rescale_size) |-> 1]]
             ELSE zoomArray(newmap, rescale_size)
        ELSE IF ~SameShape(newmap, shape)
             THEN PadBlock(newmap, shape.nr - newmap.nr, shape.nc - newmap.nc)
             ELSE newmap
ShapeBlock(newmap, rescale, rescale_size) ==
    LET shape == make_outmap(rescale, rescale_size)
    IN  IF rescale
        THEN IF MatSize(newmap) = 0 THEN Zeros(rescale_size, rescale_size)
             ELSE zoomArray(newmap, rescale_size)
        ELSE IF ~SameShape(newmap, shape)
             THEN PadBlock(newmap, shape.nr - newmap.nr, shape.nc - newmap.nc)
             ELSE newmap
\* np.pad raises ValueError on a negative pad width
ShapeRaises(newmap, rescale, rescale_size) ==
    LET shape == make_outmap(rescale, rescale_size)
    IN  ~rescale /\ (shape.nr < newmap.nr \/ shape.nc < newmap.nc)

\* lines 177-195: the coverage of one side of the window, brought to the
\* length of the map's side.  Rescaled, it is zoomed (an empty slice is
\* zeros); otherwise the left side's slice is zero-padded in front and the
\* right side's behind.
ZeroVec(n) == [k \in 1..n |-> 0]
VecAdd(a, b) == [k \in 1..Len(a) |-> a[k] + b[k]]
zoomVector(v, size) == [k \in 1..size |-> v[(((k - 1) * Len(v)) \div size) + 1]]
new_cov_start(coverage, lo_left, hi_left, rescale, rescale_size) ==
    LET sl == PySlice(coverage, lo_left, hi_left)
    IN  IF rescale
        THEN zoomVector(IF Len(sl) = 0 THEN ZeroVec(rescale_size) ELSE sl, rescale_size)
        ELSE PadConstant(sl, make_outmap(rescale, rescale_size).nr - Len(sl))
new_cov_end(coverage, lo_right, hi_right, rescale, rescale_size) ==
    LET sl == PySlice(coverage, lo_right, hi_right)
    IN  IF rescale
        THEN zoomVector(IF Len(sl) = 0 THEN ZeroVec(rescale_size) ELSE sl, rescale_size)
        ELSE sl \o ZeroVec(make_outmap(rescale, rescale_size).nc - Len(sl))

\* -------------------------------------------------------------------- state

VARIABLES
    pc,            \* where the run is: the next step of __main__
    argv,          \* the command line as it was given
    args,          \* the parsed command line, as __main__ rewrites it
    bases,         \* the rows of the loci file
    mids,          \* get_mids' table
    combinations,  \* TRUE for a one-sided table, FALSE for a two-sided one
    fchroms,       \* the chromosomes to pile up, in order
    tasks,         \* the pool's tasks of the current pass, one per chromosome
    loop,          \* pileupsWithControl's loop: the map being normalized
    fetches,       \* how many chromosome matrices get_data has fetched
    err,           \* the exception that ended the run, "" if none
    out,           \* whether the output file has been written
    call,          \* the arguments of a call of get_expected_matrix (SpecExpected)
    ret,           \* what that call returned (SpecExpected)
    loops,         \* by-window: the first pass's maps, per chromosome and locus
    finloops       \* by-window: the maps returned, per chromosome and locus

vars == <<pc, argv, args, bases, mids, combinations, fchroms, tasks, loop, fetches, err, out,
          call, ret, loops, finloops>>

Passes == {"obs", "ctrl", "exp"}
\* the passes of pileupsByWindowWithControl
BWPasses == {"bw_obs", "bw_ctrl", "bw_exp"}
NProc == 2

NoWindow == <<0, 0, 0, 0>>
NoLast == [kind |-> "none", src |-> NoWindow, w |-> NoWindow, iv |-> NoWindow,
           empty |-> FALSE]
\* a task: st is "none" (no task for this chromosome), "queued", "loop"
\* (inside _do_pileups), "done" (returned) or "raised"
NoTask == [st |-> "none", wins |-> <<>>, si |-> 0, started |-> FALSE,
           mymap |-> Zeros(0, 0), n |-> 0, it |-> 0, last |-> NoLast,
           cov_start |-> <<>>, cov_end |-> <<>>, mi |-> 0, mymaps |-> <<>>]
InSeq(x, s) == \E k \in 1..Len(s) : s[k] = x
QueuedTasks == [c \in Names |-> IF InSeq(c, fchroms) THEN [NoTask EXCEPT !.st = "queued"]
                                 ELSE NoTask]

NoCall == [lo_left |-> 0, hi_left |-> 0, lo_right |-> 0, hi_right |-> 0,
           expected |-> <<>>, local |-> FALSE]
Anchors == {<<>>, <<"chr1", 8, 12>>}
RescaleOpts == {<<FALSE, 3>>} \cup {<<TRUE, sz>> : sz \in 1..MaxRescaleSize}

Init ==
    /\ pc = "args"
    /\ \E local \in BOOLEAN, anchor \in Anchors, expected \in BOOLEAN,
          nshifts \in 0..MaxShifts, rs \in RescaleOpts :
         args = [local |-> local, anchor |-> anchor, expected |-> expected,
                 nshifts |-> nshifts, rescale |-> rs[1], rescale_size |-> rs[2],
                 mindist |-> 0, maxdist |-> Inf, by_window |-> FALSE,
                 unbalanced |-> FALSE, coverage_norm |-> FALSE]
    /\ argv = args
    /\ bases \in Tables
    /\ mids = <<>>
    /\ combinations = TRUE
    /\ fchroms = <<>>
    /\ tasks = [c \in Names |-> NoTask]
    /\ loop = Zeros(0, 0)
    /\ fetches = 0
    /\ err = ""
    /\ out = FALSE
    /\ call = NoCall
    /\ ret = Zeros(0, 0)
    /\ loops = [c \in Names |-> <<>>]
    /\ finloops = [c \in Names |-> <<>>]

Raise(e) == pc' = "error" /\ err' = e

\* ------------------------------------------------ __main__: configuration

\* lines 571-579: with --expected given, the shifted controls are dropped
ExpectedArgsKeepShifts ==
    /\ pc = "args"
    /\ pc' = "rescale"
    /\ UNCHANGED <<args, bases, mids, combinations, fchroms, tasks, loop, fetches, err, out, argv, call, ret, loops, finloops>>
ExpectedArgs ==
    /\ pc = "args"
    /\ args' = IF args.expected /\ args.nshifts > 0
               THEN [args EXCEPT !.nshifts = 0] ELSE args
    /\ pc' = "rescale"
    /\ UNCHANGED <<bases, mids, combinations, fchroms, tasks, loop, fetches, err, out, argv, call, ret, loops, finloops>>

\* lines 598-603: by-window pileups are not rescaled; the check of
\* rescale_size
RescaleSizeOK(size) == size % 3 = 0
RescaleArgs ==
    /\ pc = "rescale"
    /\ IF args.by_window /\ args.rescale
       THEN Raise("NotImplementedError: Rescaling with by-window pileups is not supported")
       ELSE IF args.rescale /\ ~RescaleSizeOK(args.rescale_size)
       THEN Raise("ValueError: Please provide an odd rescale_size")
       ELSE pc' = "anchor" /\ UNCHANGED err
    /\ UNCHANGED <<args, bases, mids, combinations, fchroms, tasks, loop, fetches, out, argv, call, ret, loops, finloops>>

\* lines 605-622: with an anchor only its chromosome is piled up
AnchorArgs ==
    /\ pc = "anchor"
    /\ fchroms' = IF args.anchor # <<>> THEN <<args.anchor[1]>> ELSE ChromOrder
    /\ pc' = "loci"
    /\ UNCHANGED <<args, bases, mids, combinations, tasks, loop, fetches, err, out, argv, call, ret, loops, finloops>>

\* lines 625-652: the loci table, one-sided or two-sided
OneSided(rows) == \A r \in rows : r.chr2 = Null
EndsBeforeStarts(rows) == \E r \in rows : r.end1 < r.start1
ReadLoci ==
    /\ pc = "loci"
    /\ IF OneSided(bases)
       THEN IF EndsBeforeStarts(bases)
            THEN /\ Raise("ValueError: Some ends in the file are smaller than starts")
                 /\ UNCHANGED <<bases, mids, combinations>>
            ELSE /\ mids' = get_mids(bases, TRUE)
                 /\ combinations' = TRUE
                 /\ pc' = "pileup"
                 /\ UNCHANGED <<bases, err>>
       ELSE LET cis == {r \in bases : r.chr1 = r.chr2}
            IN  /\ bases' = cis
                /\ IF args.anchor # <<>>
                   THEN /\ Raise("ValueError: Can't use anchor with both sides of loops defined")
                        /\ UNCHANGED <<mids, combinations>>
                   ELSE IF args.local
                   THEN /\ Raise("ValueError: Can't make local with both sides of loops defined")
                        /\ UNCHANGED <<mids, combinations>>
                   ELSE /\ mids' = get_mids(cis, FALSE)
                        /\ combinations' = FALSE
                        /\ pc' = "pileup"
                        /\ UNCHANGED err
    /\ UNCHANGED <<args, fchroms, tasks, loop, fetches, out, argv, call, ret, loops, finloops>>

\* lines 654-664, 666 and 402: the checks of a by-window run, after which
\* pileupsByWindowWithControl maps its first pass; lines 708 and 286-296:
\* otherwise pileupsWithControl maps the observed pass
StartPileups ==
    /\ pc = "pileup"
    /\ IF ~args.by_window
       THEN pc' = "obs" /\ tasks' = QueuedTasks /\ UNCHANGED err
       ELSE IF ~combinations
       THEN /\ Raise("ValueError: Can't make by-window pileups without making combinations")
            /\ UNCHANGED tasks
       ELSE IF args.local
       THEN Raise("ValueError: Can't make local by-window pileups") /\ UNCHANGED tasks
       ELSE IF args.anchor # <<>>
       THEN /\ Raise("ValueError: Can't make by-window combinations with an anchor")
            /\ UNCHANGED tasks
       ELSE IF args.coverage_norm
       THEN /\ Raise("NotImplementedError: Can't make by-window combinations with coverage normalization")
            /\ UNCHANGED tasks
       ELSE pc' = "bw_obs" /\ tasks' = QueuedTasks /\ UNCHANGED err
    /\ UNCHANGED <<args, bases, mids, combinations, fchroms, loop, fetches, out, argv, call, ret, loops, finloops>>

\* ------------------------------------------------- pileups, one chromosome

Running == Cardinality({c \in Names : tasks[c].st = "loop"})
\* the pool hands the tasks out in order
NextQueued(c) ==
    /\ tasks[c].st = "queued"
    /\ \E k \in 1..Len(fchroms) :
         fchroms[k] = c /\ \A l \in 1..(k - 1) : tasks[fchroms[l]].st # "queued"

\* the generator pileups hands to _do_pileups, before control shifting
SourceWindows(c) ==
    IF combinations THEN get_combinations(SelectChrom(mids, c), args.local, args.anchor)
    ELSE get_positions_pairs(SelectChrom(mids, c))

\* which kind of pass the tasks are in: ctrl=True, and expected not False
\* (pileupsByWindowWithControl hands expected to its first two passes too)
CtrlPass == pc \in {"ctrl", "bw_ctrl"}
ExpectedPass == pc = "exp" \/ (pc \in BWPasses /\ args.expected)
\* unbalanced and cov_norm and expected is False
CovPass == args.unbalanced /\ args.coverage_norm /\ ~ExpectedPass

\* lines 206-253: up to the call of _do_pileups.  A chromosome with at most
\* one row returns an empty map at once; otherwise the matrix is fetched
\* (not in the expected pass), which raises for a chromosome the cooler
\* file does not hold, and the window generator is set up.
pileupsStart(c) ==
    /\ pc \in Passes
    /\ NextQueued(c)
    /\ Running < NProc
    /\ LET mymap == make_outmap(args.rescale, args.rescale_size)
       IN  IF ~(Len(SelectChrom(mids, c)) > 1)
           THEN /\ tasks' = [tasks EXCEPT ![c].st = "done",
                               ![c].mymap = mymap,
                               ![c].cov_start = ZeroVec(mymap.nr),
                               ![c].cov_end = ZeroVec(mymap.nc)]
                /\ UNCHANGED fetches
           ELSE IF pc # "exp" /\ c \notin Chroms
           THEN /\ tasks' = [tasks EXCEPT ![c].st = "raised"]
                /\ UNCHANGED fetches
           ELSE /\ tasks' = [tasks EXCEPT ![c].st = "loop",
                               ![c].wins = SourceWindows(c),
                               ![c].mymap = mymap,
                               ![c].cov_start = ZeroVec(mymap.nr),
                               ![c].cov_end = ZeroVec(mymap.nc)]
                /\ fetches' = IF pc = "exp" THEN fetches ELSE fetches + 1
    /\ UNCHANGED <<pc, args, bases, mids, combinations, fchroms, loop, err, out, argv, call, ret, loops, finloops>>

\* lines 64-65: get_combinations is a generator, so its first line runs when
\* _do_pileups asks for the first window
CombinationsRaise(c) == combinations /\ args.local /\ args.anchor # <<>>
get_combinationsRaise(c) ==
    /\ pc \in Passes
    /\ tasks[c].st = "loop"
    /\ ~tasks[c].started
    /\ CombinationsRaise(c)
    /\ tasks' = [tasks EXCEPT ![c].st = "raised"]
    /\ UNCHANGED <<pc, args, bases, mids, combinations, fchroms, loop, fetches, err, out, argv, call, ret, loops, finloops>>

\* lines 138-198: one iteration of the loop of _do_pileups on the window the
\* generator yields (in the control pass, the head window shifted by one
\* draw of controlRegions)
CountWindow(n) == n + 1
do_pileupsWindow(c) ==
    /\ pc \in Passes \cup BWPasses
    /\ tasks[c].st = "loop"
    /\ tasks[c].wins # <<>>
    /\ ~CombinationsRaise(c)
    /\ \E shift \in IF CtrlPass THEN ShiftSet(MinShift, MaxShift) ELSE {0} :
       LET t == tasks[c]
           src == controlRegion(t.wins[1], shift)
           pop == ~CtrlPass \/ t.si + 1 >= args.nshifts
           w == SwapWindow(src)
           stPad == LoopPad(w[3], args.rescale)
           endPad == LoopPad(w[4], args.rescale)
           lo_left == w[1] - stPad
           hi_left == w[1] + stPad + 1
           lo_right == w[2] - endPad
           hi_right == w[2] + endPad + 1
           nxt == [t EXCEPT !.wins = IF pop THEN Tail(t.wins) ELSE t.wins,
                            !.si = IF pop THEN 0 ELSE t.si + 1,
                            !.started = TRUE,
                            !.it = t.it + 1]
           expected == ExpectedCurve(c)
           coverage == Coverage(c, args.local)
           iv == <<lo_left, hi_left, lo_right, hi_right>>
       IN  IF ~PassesFilter(w, args.mindist, args.maxdist, args.local)
           THEN tasks' = [tasks EXCEPT ![c] =
                    [nxt EXCEPT !.last = [kind |-> "filtered", src |-> src, w |-> w,
                                          iv |-> iv, empty |-> FALSE]]]
           ELSE IF ExpectedPass /\ ExpectedRaises(lo_left, hi_left, lo_right, hi_right,
                                                expected, args.local)
           THEN tasks' = [tasks EXCEPT ![c] =
                    [nxt EXCEPT !.st = "raised",
                                !.last = [kind |-> "raised", src |-> src, w |-> w,
                                          iv |-> iv, empty |-> FALSE]]]
           ELSE \E caught \in IF ~ExpectedPass /\ (LeavesMatrix(lo_left, hi_left)
                                                \/ LeavesMatrix(lo_right, hi_right))
                              THEN BOOLEAN ELSE {FALSE} :
                LET newmap == IF ExpectedPass
                              THEN get_expected_matrix(lo_left, hi_left, lo_right,
                                                       hi_right, expected, args.local)
                              ELSE Extract(c, args.unbalanced, args.local, lo_left, hi_left,
                                           lo_right, hi_right)
                IN  IF caught
                    THEN tasks' = [tasks EXCEPT ![c] =
                             [nxt EXCEPT !.last = [kind |-> "skipped", src |-> src,
                                                   w |-> w, iv |-> iv,
                                                   empty |-> FALSE]]]
                    ELSE IF ShapeRaises(newmap, args.rescale, args.rescale_size)
                    THEN tasks' = [tasks EXCEPT ![c] =
                             [nxt EXCEPT !.st = "raised",
                                         !.last = [kind |-> "raised", src |-> src,
                                                   w |-> w, iv |-> iv,
                                                   empty |-> MatSize(newmap) = 0]]]
                    ELSE tasks' = [tasks EXCEPT ![c] =
                             [nxt EXCEPT !.mymap = MatAdd(t.mymap,
                                             ShapeBlock(newmap, args.rescale,
                                                        args.rescale_size)),
                                         !.cov_start =
                                             IF CovPass
                                             THEN VecAdd(t.cov_start,
                                                    new_cov_start(coverage, lo_left, hi_left,
                                                        args.rescale, args.rescale_size))
                                             ELSE t.cov_start,
                                         !.cov_end =
                                             IF CovPass
                                             THEN VecAdd(t.cov_end,
                                                    new_cov_end(coverage, lo_right, hi_right,
                                                        args.rescale, args.rescale_size))
                                             ELSE t.cov_end,
                                         !.n = CountWindow(t.n),
                                         !.last = [kind |-> "added", src |-> src,
                                                   w |-> w, iv |-> iv,
                                                   empty |-> MatSize(newmap) = 0]]]
    /\ UNCHANGED <<pc, args, bases, mids, combinations, fchroms, loop, fetches, err, out, argv, call, ret, loops, finloops>>

\* lines 199 and 263-264: the generator is exhausted, the task returns
pileupsReturn(c) ==
    /\ pc \in Passes
    /\ tasks[c].st = "loop"
    /\ tasks[c].wins = <<>>
    /\ ~(CombinationsRaise(c) /\ ~tasks[c].started)
    /\ tasks' = [tasks EXCEPT ![c].st = "done"]
    /\ UNCHANGED <<pc, args, bases, mids, combinations, fchroms, loop, fetches, err, out, argv, call, ret, loops, finloops>>

\* ---------------------------------------------------- pileupsWithControl

\* Every task has been taken by a worker (weaker than AllReturned, the
\* condition p.map returns under)
AllStarted == \A k \in 1..Len(fchroms) : tasks[fchroms[k]].st # "queued"

\* p.map returns: every task has returned or raised
AllReturned == \A k \in 1..Len(fchroms) : tasks[fchroms[k]].st \in {"done", "raised"}
SomeRaised == \E k \in 1..Len(fchroms) : tasks[fchroms[k]].st = "raised"

\* np.sum(maps, axis=0) and np.sum(ns) over the tasks' results
RECURSIVE SumMaps(_)
SumMaps(k) ==
    IF k = 1 THEN tasks[fchroms[1]].mymap
    ELSE MatAdd(SumMaps(k - 1), tasks[fchroms[k]].mymap)
RECURSIVE SumNs(_)
SumNs(k) == IF k = 0 THEN 0 ELSE SumNs(k - 1) + tasks[fchroms[k]].n
\* m / n for a summed map and a count
MeanMap(m, n) == [nr |-> m.nr, nc |-> m.nc,
                  at |-> [ij \in Cells(m.nr, m.nc) |-> FDiv(Flt(m.at[ij]), Flt(n))]]
\* m / n for a map of floats and a count
DivCount(m, n) == [nr |-> m.nr, nc |-> m.nc,
                   at |-> [ij \in Cells(m.nr, m.nc) |-> FDiv(m.at[ij], Flt(n))]]

\* np.sum(cov_starts, axis=0) over the tasks' results
RECURSIVE SumCovStarts(_)
SumCovStarts(k) ==
    IF k = 1 THEN tasks[fchroms[1]].cov_start
    ELSE VecAdd(SumCovStarts(k - 1), tasks[fchroms[k]].cov_start)
\* lines 300-301 and 318-319: the two marginals handed to norm_coverage;
\* cov_end is summed from cov_starts as well
PassCovStart == SumCovStarts(Len(fchroms))
PassCovEnd == SumCovStarts(Len(fchroms))

\* norm_coverage: the map over the outer product of the marginals, itself
\* divided by its mean; NaN becomes 0
norm_coverage(m, cov_start, cov_end) ==
    LET total == SumTo(cov_start, Len(cov_start)) * SumTo(cov_end, Len(cov_end))
        mean == <<total, Len(cov_start) * Len(cov_end)>>
        coverage == [ij \in Cells(m.nr, m.nc) |->
                       FDiv(Flt(cov_start[ij[1] + 1] * cov_end[ij[2] + 1]), mean)]
    IN  [nr |-> m.nr, nc |-> m.nc,
         at |-> [ij \in Cells(m.nr, m.nc) |->
                   NanToNum(FDiv(Flt(m.at[ij]), coverage[ij]))]]
\* lines 297-303 (and 315-321): a pass's maps summed, normalized by coverage
\* with cov_norm, and divided by the pass's count
PassMean(cov_norm) ==
    IF cov_norm
    THEN DivCount(norm_coverage(SumMaps(Len(fchroms)), PassCovStart, PassCovEnd),
                  SumNs(Len(fchroms)))
    ELSE MeanMap(SumMaps(Len(fchroms)), SumNs(Len(fchroms)))
\* a / b, elementwise
DivMaps(a, b) == [nr |-> a.nr, nc |-> a.nc,
                  at |-> [ij \in Cells(a.nr, a.nc) |-> FDiv(a.at[ij], b.at[ij])]]

\* p.map re-raises in the parent what a task raised
MapRaise ==
    /\ pc \in Passes \cup BWPasses
    /\ AllReturned
    /\ SomeRaised
    /\ Raise("raised in a chromosome task")
    /\ UNCHANGED <<args, bases, mids, combinations, fchroms, tasks, loop, fetches, out, argv, call, ret, loops, finloops>>

\* lines 296-304: the observed pass is summed and divided by its count, then
\* the control pass or the expected pass is mapped, or neither
MergeObs ==
    /\ pc = "obs"
    /\ AllReturned
    /\ ~SomeRaised
    /\ loop' = PassMean(args.coverage_norm)
    /\ IF args.nshifts > 0 THEN pc' = "ctrl" /\ tasks' = QueuedTasks
       ELSE IF args.expected THEN pc' = "exp" /\ tasks' = QueuedTasks
       ELSE pc' = "save" /\ UNCHANGED tasks
    /\ UNCHANGED <<args, bases, mids, combinations, fchroms, fetches, err, out, argv, call, ret, loops, finloops>>

\* lines 314-322 (controls) and 331-335 (expected): the baseline is summed,
\* divided by its count, and divides the observed map
MergeBaseline ==
    /\ pc \in {"ctrl", "exp"}
    /\ AllReturned
    /\ ~SomeRaised
    /\ loop' = DivMaps(loop, PassMean(args.coverage_norm /\ pc = "ctrl"))
    /\ pc' = "save"
    /\ UNCHANGED <<args, bases, mids, combinations, fchroms, tasks, fetches, err, out, argv, call, ret, loops, finloops>>

\* line 751: np.savetxt of the returned map
SaveOutput ==
    /\ pc = "save"
    /\ out' = TRUE
    /\ pc' = "done"
    /\ UNCHANGED <<args, bases, mids, combinations, fchroms, tasks, loop, fetches, err, argv, call, ret, loops, finloops>>

Next ==
    \/ ExpectedArgs
    \/ RescaleArgs
    \/ AnchorArgs
    \/ ReadLoci
    \/ StartPileups
    \/ \E c \in Names : pileupsStart(c)
    \/ \E c \in Names : get_combinationsRaise(c)
    \/ \E c \in Names : do_pileupsWindow(c)
    \/ \E c \in Names : pileupsReturn(c)
    \/ MapRaise
    \/ MergeObs
    \/ MergeBaseline
    \/ SaveOutput

Spec == Init /\ [][Next]_vars

\* ------------------------------------------------------- by-window pileups

\* lines 366-371: the windows of the locus at index i of a chromosome's
\* rows, every row against it (the locus itself included): get_combinations
\* with the anchor (chrom, m, m)
ByWindowWindows(c, i) ==
    LET curmids == SelectChrom(mids, c)
        m == curmids[i].Mids1
    IN  get_combinations(curmids, FALSE, <<c, m, m>>)

\* lines 345-371: pileupsByWindow up to its first call of _do_pileups.  The
\* third pass hands pileupsByWindow keywords it does not take (local,
\* combinations, anchor), a TypeError; otherwise the matrix is fetched
\* unless an expected table is given, and a chromosome with at most one row
\* returns no map.
pileupsByWindowStart(c) ==
    /\ pc \in BWPasses
    /\ NextQueued(c)
    /\ Running < NProc
    /\ LET mymap == make_outmap(FALSE, args.rescale_size)
       IN  IF pc = "bw_exp"
           THEN /\ tasks' = [tasks EXCEPT ![c].st = "raised"]
                /\ UNCHANGED fetches
           ELSE /\ fetches' = IF args.expected THEN fetches ELSE fetches + 1
                /\ IF ~(Len(SelectChrom(mids, c)) > 1)
                   THEN tasks' = [tasks EXCEPT ![c].st = "done"]
                   ELSE tasks' = [tasks EXCEPT ![c].st = "loop",
                                     ![c].mi = 1,
                                     ![c].wins = ByWindowWindows(c, 1),
                                     ![c].mymap = mymap,
                                     ![c].cov_start = ZeroVec(mymap.nr),
                                     ![c].cov_end = ZeroVec(mymap.nc)]
    /\ UNCHANGED <<pc, args, bases, mids, combinations, fchroms, loop, err, out, argv, call, ret, loops, finloops>>

\* lines 382-386 and the next turn of the loop of line 365: _do_pileups has
\* returned for one locus; its map is divided by its count and kept, and the
\* next locus is taken up, or the task returns.  With a count of 0 line 385
\* runs make_outmap(make_outmap(pad, rescale, rescale_pad)): the inner call
\* returns an array, which the outer call takes for pad, and np.zeros raises
\* TypeError on the shape (2*array + 1, 2*array + 1).
pileupsByWindowNext(c) ==
    /\ pc \in BWPasses
    /\ tasks[c].st = "loop"
    /\ tasks[c].wins = <<>>
    /\ LET t == tasks[c]
           k == Len(SelectChrom(mids, c))
           mymap == make_outmap(FALSE, args.rescale_size)
           kept == Append(t.mymaps, MeanMap(t.mymap, t.n))
       IN  IF ~(t.n > 0)
           THEN tasks' = [tasks EXCEPT ![c].st = "raised"]
           ELSE IF t.mi < k
           THEN tasks' = [tasks EXCEPT ![c].mymaps = kept,
                             ![c].mi = t.mi + 1,
                             ![c].wins = ByWindowWindows(c, t.mi + 1),
                             ![c].si = 0,
                             ![c].mymap = mymap,
                             ![c].n = 0,
                             ![c].cov_start = ZeroVec(mymap.nr),
                             ![c].cov_end = ZeroVec(mymap.nc)]
           ELSE tasks' = [tasks EXCEPT ![c].mymaps = kept, ![c].st = "done"]
    /\ UNCHANGED <<pc, args, bases, mids, combinations, fchroms, loop, fetches, err, out, argv, call, ret, loops, finloops>>

\* lines 402-429 without controls: the first pass's maps are kept; the
\* control pass or the third pass is mapped, or neither, and then ctrls was
\* never assigned: dividing the first map by it is a NameError
MergeByWindowObs ==
    /\ pc = "bw_obs"
    /\ AllReturned
    /\ ~SomeRaised
    /\ loops' = [c \in Names |-> tasks[c].mymaps]
    /\ IF args.nshifts > 0 THEN pc' = "bw_ctrl" /\ tasks' = QueuedTasks /\ UNCHANGED err
       ELSE IF args.expected THEN pc' = "bw_exp" /\ tasks' = QueuedTasks /\ UNCHANGED err
       ELSE IF \E c \in Names : tasks[c].mymaps # <<>>
       THEN Raise("NameError: name 'ctrls' is not defined") /\ UNCHANGED tasks
       ELSE pc' = "save" /\ UNCHANGED <<tasks, err>>
    /\ UNCHANGED <<args, bases, mids, combinations, fchroms, loop, fetches, out, argv, call, ret, finloops>>

\* lines 411-429: every locus's map over its control map
MergeByWindowCtrl ==
    /\ pc = "bw_ctrl"
    /\ AllReturned
    /\ ~SomeRaised
    /\ finloops' = [c \in Names |->
                      [k \in 1..Len(loops[c]) |-> DivMaps(loops[c][k], tasks[c].mymaps[k])]]
    /\ pc' = "save"
    /\ UNCHANGED <<args, bases, mids, combinations, fchroms, tasks, loop, fetches, err, out, argv, call, ret, loops>>

NextByWindow ==
    \/ Next
    \/ \E c \in Names : pileupsByWindowStart(c)
    \/ \E c \in Names : pileupsByWindowNext(c)
    \/ MergeByWindowObs
    \/ MergeByWindowCtrl

\* ------------------------------------------- runs with the further options
\* The command lines of Spec leave --by_window, --unbalanced,
\* --coverage_norm, --mindist and --maxdist out; those of SpecOptions give
\* them, without --rescale, and with coverage normalization only when no
\* controls are made (the quotient of two coverage-normalized maps has
\* numerators beyond the integers of the model checker).

\* --mindist and --maxdist, in base pairs, when they are given
MinDist == 4
MaxDist == 8
DistOpts == {<<0, Inf>>, <<MinDist, Flt(MaxDist)>>}
\* --unbalanced and --coverage_norm: neither or both
CoverageOpts == {<<FALSE, FALSE>>, <<TRUE, TRUE>>}
\* an anchor may name a chromosome the cooler file does not hold
OptionAnchors == Anchors \cup {<<"chr3", 8, 12>>}
\* the loci files tried: loci 8 bins apart, three loci, two chromosomes with
\* two loci each, one locus and two loci on the chromosome the cooler file
\* does not hold, and a two-sided file
OptionTables ==
    { {Row1("chr1", 2, 6), Row1("chr1", 10, 14)},
      {Row1("chr1", 2, 6), Row1("chr1", 7, 10), Row1("chr1", 10, 14)},
      {Row1("chr1", 2, 6), Row1("chr1", 7, 10), Row1("chr2", 4, 8), Row1("chr2", 8, 12)},
      {Row1("chr3", 2, 6)},
      {Row1("chr3", 2, 6), Row1("chr3", 10, 14)},
      {Row2("chr1", 2, 6, "chr1", 10, 14), Row2("chr1", 6, 10, "chr1", 0, 8)} }
\* the loci files tried by window: those of at most two loci, and the
\* two-sided file
ByWindowTables == { t \in OptionTables : Cardinality(t) <= 2 }

InitOptions ==
    /\ pc = "args"
    /\ \E local \in BOOLEAN, anchor \in OptionAnchors, expected \in BOOLEAN,
          nshifts \in 0..MaxShifts, by_window \in BOOLEAN,
          cov \in CoverageOpts, dist \in DistOpts :
         /\ cov[2] => nshifts = 0
         /\ args = [local |-> local, anchor |-> anchor, expected |-> expected,
                    nshifts |-> nshifts, rescale |-> FALSE, rescale_size |-> 3,
                    mindist |-> dist[1], maxdist |-> dist[2], by_window |-> by_window,
                    unbalanced |-> cov[1], coverage_norm |-> cov[2]]
    /\ argv = args
    /\ bases \in IF args.by_window THEN ByWindowTables ELSE OptionTables
    /\ mids = <<>>
    /\ combinations = TRUE
    /\ fchroms = <<>>
    /\ tasks = [c \in Names |-> NoTask]
    /\ loop = Zeros(0, 0)
    /\ fetches = 0
    /\ err = ""
    /\ out = FALSE
    /\ call = NoCall
    /\ ret = Zeros(0, 0)
    /\ loops = [c \in Names |-> <<>>]
    /\ finloops = [c \in Names |-> <<>>]

SpecOptions == InitOptions /\ [][NextByWindow]_vars

\* ------------------------------------------- get_expected_matrix on its own

\* the largest bin, the largest pad and the longest curve of a call
MaxCallBin == 2
MaxCallPad == 2
MaxCurve == 8

\* a curve of the given length, strictly decreasing and positive
CurveOf(len) == [k \in 1..len |-> MaxCurve + 2 - k]

\* The calls _do_pileups makes: the intervals of an ordered window, whose
\* two sides are the same for a local window.
Calls ==
    { [lo_left |-> b1 - p1, hi_left |-> b1 + p1 + 1,
       lo_right |-> b2 - p2, hi_right |-> b2 + p2 + 1,
       expected |-> CurveOf(len), local |-> local] :
        b1 \in 0..MaxCallBin, b2 \in 0..MaxCallBin, p1 \in 0..MaxCallPad,
        p2 \in 0..MaxCallPad, len \in 0..MaxCurve, local \in BOOLEAN }
InitExpected ==
    /\ pc = "call"
    /\ call \in { k \in Calls : /\ k.lo_left + k.hi_left <= k.lo_right + k.hi_right
                                /\ k.local => (k.lo_left = k.lo_right
                                               /\ k.hi_left = k.hi_right) }
    /\ ret = Zeros(0, 0)
    /\ args = [local |-> FALSE, anchor |-> <<>>, expected |-> TRUE, nshifts |-> 0,
               rescale |-> FALSE, rescale_size |-> 3, mindist |-> 0, maxdist |-> Inf,
               by_window |-> FALSE, unbalanced |-> FALSE, coverage_norm |-> FALSE]
    /\ argv = args
    /\ bases = {}
    /\ mids = <<>>
    /\ combinations = TRUE
    /\ fchroms = <<>>
    /\ tasks = [c \in Names |-> NoTask]
    /\ loop = Zeros(0, 0)
    /\ fetches = 0
    /\ err = ""
    /\ out = FALSE
    /\ loops = [c \in Names |-> <<>>]
    /\ finloops = [c \in Names |-> <<>>]

\* lines 98-115: one call of get_expected_matrix
CallExpected ==
    /\ pc = "call"
    /\ IF ExpectedRaises(call.lo_left, call.hi_left, call.lo_right, call.hi_right,
                         call.expected, call.local)
       THEN pc' = "raised" /\ UNCHANGED ret
       ELSE /\ pc' = "returned"
            /\ ret' = get_expected_matrix(call.lo_left, call.hi_left, call.lo_right,
                                          call.hi_right, call.expected, call.local)
    /\ UNCHANGED <<argv, args, bases, mids, combinations, fchroms, tasks, loop, fetches,
                   err, out, call, loops, finloops>>

SpecExpected == InitExpected /\ [][CallExpected]_vars

\* ------------------------------------------------------------------- claims

RescaleErr == "ValueError: Please provide an odd rescale_size"
Started == {"obs", "ctrl", "exp", "save", "done"}

\* C1: with local mode and an anchor both set for a one-sided loci table,
\* the run fails with a configuration error before any chromosome matrix is
\* fetched: no fetch ever happens and the run never completes.
C1_NoFetchBeforeConfigError ==
    (args.local /\ args.anchor # <<>> /\ OneSided(bases))
        => (fetches = 0 /\ pc \notin {"save", "done"})

\* C2 as claimed: a command line with both an expected model and nshifts > 0
\* is rejected with a configuration error and no pileup pass is run.
C2_BothRejected ==
    (argv.expected /\ argv.nshifts > 0 /\ pc # "args")
        => (pc = "error" /\ \A c \in Chroms : tasks[c].st = "none")
\* C2 as amended: a command line with both an expected model and nshifts > 0
\* is not rejected; configuration sets nshifts to 0, so that no
\* shifted-control pass is ever run and the expected model alone normalizes.
C2_ExpectedDropsControls ==
    (argv.expected /\ argv.nshifts > 0 /\ pc # "args")
        => (args.expected /\ args.nshifts = 0 /\ pc # "ctrl" /\ err # "ConfigurationError")
C2_ExpectedPassRuns ==
    argv.expected /\ argv.nshifts > 0 /\ pc = "exp"
    /\ \E c \in Chroms : tasks[c].last.kind = "added"

\* C3: with rescale on, configuration rejects every even rescale_size and
\* accepts every odd one.
C3_OddAcceptedEvenRejected ==
    (args.rescale /\ pc \notin {"args", "rescale"})
        => ((pc = "error" /\ err = RescaleErr) <=> args.rescale_size % 2 = 0)

\* C4: no locus or locus pair with a negative pad reaches window enumeration:
\* a table with a row whose end is before its start, on either side, stops
\* the run with a validation error, nothing being written.
C4_NoNegativePadEnumerated ==
    /\ (\E r \in bases : r.end1 < r.start1 \/ r.end2 < r.start2)
          => (pc \notin Started /\ pc # "pileup" /\ ~out)
    /\ \A k \in 1..Len(mids) : mids[k].Width1 >= 0 /\ mids[k].Width2 >= 0
    /\ \A c \in Chroms : \A k \in 1..Len(tasks[c].wins) :
          tasks[c].wins[k][3] >= 0 /\ tasks[c].wins[k][4] >= 0

\* C5: every window the loop has taken is ordered by the time its intervals
\* are computed (binStart <= binEnd), each pad has stayed with its bin (the
\* pad of the smaller bin is padStart), and the intervals are centred on
\* the ordered bins with the half-widths of their own pads.
C5_WindowOrdered ==
    \A c \in Chroms :
        LET l == tasks[c].last
        IN  l.kind # "none" =>
              /\ l.w[1] <= l.w[2]
              /\ {<<l.w[1], l.w[3]>>, <<l.w[2], l.w[4]>>}
                    = {<<l.src[1], l.src[3]>>, <<l.src[2], l.src[4]>>}
              /\ (l.src[1] > l.src[2] => l.w[3] = l.src[4] /\ l.w[4] = l.src[3])
              /\ (l.src[1] < l.src[2] => l.w[3] = l.src[3] /\ l.w[4] = l.src[4])
              /\ l.iv[1] + l.iv[2] - 1 = 2 * l.w[1]
              /\ l.iv[3] + l.iv[4] - 1 = 2 * l.w[2]
              /\ (args.rescale => /\ l.iv[2] - l.iv[1] - 1 = 2 * (l.w[3] + RescalePad * 2 * l.w[3])
                                  /\ l.iv[4] - l.iv[3] - 1 = 2 * (l.w[4] + RescalePad * 2 * l.w[4]))
C5_SwappedControlWindow ==
    \E c \in Chroms :
        /\ pc = "ctrl"
        /\ tasks[c].last.kind = "added"
        /\ tasks[c].last.src[1] > tasks[c].last.src[2]
        /\ tasks[c].last.src[3] # tasks[c].last.src[4]

\* C6: the final map holds no NaN and no infinity.
C6_FinalMapFinite ==
    pc \in {"save", "done"} => \A ij \in Cells(loop.nr, loop.nc) : IsFinite(loop.at[ij])

\* C7, for intervals that do not overlap and distances the curve covers: the
\* matrix get_expected_matrix returns has the shape
\* (hi_left - lo_left) x (hi_right - lo_right) and its entry (i, j) is
\* expected[|(lo_right + j) - (lo_left + i)|], whatever the two widths.
C7_ExpectedByDistance ==
    (/\ pc = "returned"
     /\ call.lo_right - call.hi_left + 1 >= 0
     /\ call.hi_right - call.lo_left <= Len(call.expected))
        => /\ ret.nr = call.hi_left - call.lo_left
           /\ ret.nc = call.hi_right - call.lo_right
           /\ \A ij \in Cells(ret.nr, ret.nc) :
                 ret.at[ij] = call.expected[Abs((call.lo_right + ij[2])
                                                - (call.lo_left + ij[1])) + 1]

\* C8 as claimed: for a local window the matrix is symmetric.
Symmetric(m) ==
    /\ m.nr = m.nc
    /\ \A ij \in Cells(m.nr, m.nc) : m.at[ij] = m.at[<<ij[2], ij[1]>>]
C8_LocalSymmetric ==
    (pc = "returned" /\ call.local) => Symmetric(ret)
\* C8 as amended: for a local window no wider than the expected curve is
\* long, the matrix is square of the window's width, symmetric, and
\* unchanged by reflection through its centre.
C8_LocalSymmetricCovered ==
    (pc = "returned" /\ call.local /\ Len(call.expected) >= call.hi_left - call.lo_left)
        => /\ ret.nr = call.hi_left - call.lo_left
           /\ Symmetric(ret)
           /\ \A ij \in Cells(ret.nr, ret.nc) :
                 ret.at[ij] = ret.at[<<ret.nr - 1 - ij[1], ret.nc - 1 - ij[2]>>]
C8_LocalMatrixBuilt ==
    /\ pc = "returned"
    /\ call.local
    /\ call.hi_left - call.lo_left >= 3
    /\ Len(call.expected) >= call.hi_left - call.lo_left
    /\ ret.nr >= 3
    /\ ret.at[<<0, 2>>] # ret.at[<<0, 0>>]
    /\ ret.at[<<2, 0>>] = ret.at[<<0, 2>>]

\* C9: with rescale on, an iteration whose extraction came back empty is not
\* a failure: the block added is all zeros (the map is as before) and the
\* window is counted.
C9_EmptyBlockCountedStep ==
    [][\A c \in Chroms :
          (tasks'[c].it = tasks[c].it + 1 /\ args.rescale /\ tasks'[c].last.empty)
             => /\ tasks'[c].last.kind = "added"
                /\ tasks'[c].st = "loop"
                /\ tasks'[c].mymap = tasks[c].mymap
                /\ tasks'[c].n = tasks[c].n + 1]_vars
C9_EmptyBlockSeen ==
    \E c \in Chroms :
        /\ args.rescale
        /\ tasks[c].last.kind = "added"
        /\ tasks[c].last.empty
        /\ tasks[c].n >= 1

\* C10: in combinations mode a chromosome with n loci hands the loop exactly
\* C(n, 2) windows, one per pair i < j of its loci, with the bins and the
\* pads of that pair; the loop runs C(n, 2) times.
PairWindow(ms, i, j) ==
    <<BinOf(ms[i].Mids1), BinOf(ms[j].Mids1), PadOf(ms[i].Width1), PadOf(ms[j].Width1)>>
C10_AllPairsOnce ==
    \A c \in Chroms :
        (pc = "obs" /\ combinations /\ ~args.local /\ args.anchor = <<>>) =>
            LET ms == SelectChrom(mids, c)
                n == Len(ms)
                t == tasks[c]
                IJ == {ab \in (1..n) \X (1..n) : ab[1] < ab[2]}
            IN  /\ (t.st = "loop" /\ ~t.started) =>
                      /\ Len(t.wins) = (n * (n - 1)) \div 2
                      /\ \A ab \in IJ :
                            Cardinality({k \in 1..Len(t.wins) :
                                           t.wins[k] = PairWindow(ms, ab[1], ab[2])})
                              = Cardinality({xy \in IJ : PairWindow(ms, xy[1], xy[2])
                                                           = PairWindow(ms, ab[1], ab[2])})
                /\ t.st = "done" => t.it = (n * (n - 1)) \div 2
C10_ThreeLociThreeWindows ==
    \E c \in Chroms :
        /\ pc = "obs" /\ combinations /\ ~args.local /\ args.anchor = <<>>
        /\ Len(SelectChrom(mids, c)) = 3
        /\ tasks[c].st = "done"
        /\ tasks[c].it = 3

\* C11: an iteration of the loop on a window whose distance
\* |binEnd - binStart| * binsize is not within mindist <= distance < maxdist
\* leaves, when not in local mode, the map, the count and both coverage
\* accumulators as they were; in local mode no iteration is filtered out;
\* and the count goes up by one exactly in the iterations that passed the
\* filter and added their block.
C11_FilteredWindowNoEffect ==
    [][\A c \in Names :
          (tasks'[c].it = tasks[c].it + 1) =>
             LET d == Abs(tasks'[c].last.w[2] - tasks'[c].last.w[1]) * Res
                 inside == /\ args.mindist <= d
                           /\ d * args.maxdist[2] < args.maxdist[1]
             IN  /\ (~args.local /\ ~inside) =>
                       /\ tasks'[c].mymap = tasks[c].mymap
                       /\ tasks'[c].n = tasks[c].n
                       /\ tasks'[c].cov_start = tasks[c].cov_start
                       /\ tasks'[c].cov_end = tasks[c].cov_end
                 /\ args.local => tasks'[c].last.kind # "filtered"
                 /\ tasks'[c].last.kind = "added" => (args.local \/ inside)
                 /\ tasks'[c].n = tasks[c].n + (IF tasks'[c].last.kind = "added"
                                                THEN 1 ELSE 0)]_vars
C11_FilteredAfterCounted ==
    \E c \in Names :
        /\ pc = "obs"
        /\ ~args.local
        /\ args.unbalanced /\ args.coverage_norm
        /\ tasks[c].last.kind = "filtered"
        /\ Abs(tasks[c].last.w[2] - tasks[c].last.w[1]) * Res = MaxDist
        /\ tasks[c].n = 1
        /\ tasks[c].it = 2
        /\ SumTo(tasks[c].cov_start, Len(tasks[c].cov_start)) > 0

\* C12: the passes do not overlap and a pass is merged at a barrier: the
\* step that starts the control (or expected) pass is taken with every task
\* of the observed pass returned, and so is every step that changes the
\* merged map or the kept by-window maps; a task runs only within its pass.
C12_MergeAtBarrier ==
    [][LET returned == \A k \in 1..Len(fchroms) : tasks[fchroms[k]].st = "done"
       IN  /\ (pc' # pc /\ pc' \in {"ctrl", "exp"}) => (pc = "obs" /\ returned)
           /\ (pc' # pc /\ pc' \in {"bw_ctrl", "bw_exp"}) => (pc = "bw_obs" /\ returned)
           /\ (loop' # loop \/ loops' # loops \/ finloops' # finloops) => returned
           /\ (pc' # pc /\ pc \in Passes \cup BWPasses /\ pc' # "error") => returned
           /\ \A c \in Names :
                 (tasks'[c].st = "loop" /\ tasks[c].st # "loop") =>
                     (pc' = pc /\ pc \in Passes \cup BWPasses)]_vars
C12_ControlTasksOverlap ==
    /\ pc = "ctrl"
    /\ tasks["chr1"].st = "loop" /\ tasks["chr1"].it >= 1
    /\ tasks["chr2"].st = "loop" /\ tasks["chr2"].n >= 1
    /\ loop.nr > 0

\* C13: in the control pass every window the generator yields is its source
\* window moved by one shift s on both ends, pads unchanged and span kept,
\* with minshift//res <= |s| < maxshift//res, and the source window is
\* left after exactly nshifts such draws.
C13_ControlShiftStep ==
    [][\A c \in Names :
          (pc = "ctrl" /\ tasks'[c].it = tasks[c].it + 1) =>
             LET h == tasks[c].wins[1]
                 src == tasks'[c].last.src
                 shift == src[1] - h[1]
             IN  /\ src = <<h[1] + shift, h[2] + shift, h[3], h[4]>>
                 /\ src[2] - src[1] = h[2] - h[1]
                 /\ MinShift \div Res <= Abs(shift)
                 /\ Abs(shift) < MaxShift \div Res
                 /\ (tasks'[c].wins = Tail(tasks[c].wins))
                       <=> (tasks[c].si + 1 = args.nshifts)]_vars

\* C14: a run whose chromosomes include one the cooler file does not hold
\* never completes: it writes no map, however many loci that chromosome has.
C14_MissingChromosomeAborts ==
    (\E k \in 1..Len(fchroms) : fchroms[k] \notin Chroms)
        => (pc \notin {"save", "done"} /\ ~out)

\* C15: with coverage normalization (and neither controls nor an expected
\* table) the returned map is the summed observed map over the outer product
\* of the summed cov_start and the summed cov_end accumulators of the tasks,
\* that product divided by its mean, all over the count.
RECURSIVE SumCovEnds(_)
SumCovEnds(k) ==
    IF k = 1 THEN tasks[fchroms[1]].cov_end
    ELSE VecAdd(SumCovEnds(k - 1), tasks[fchroms[k]].cov_end)
C15_CoverageOuterProduct ==
    (/\ pc = "save"
     /\ ~args.by_window
     /\ args.coverage_norm
     /\ args.nshifts = 0
     /\ ~args.expected)
        => loop = DivCount(norm_coverage(SumMaps(Len(fchroms)),
                                         SumCovStarts(Len(fchroms)),
                                         SumCovEnds(Len(fchroms))),
                           SumNs(Len(fchroms)))

\* C16: in fixed-pad mode the block an iteration adds to the map is the
\* canonical (2*pad+1) x (2*pad+1) block of the window, zero where the
\* window leaves the chromosome: the contact at matrix position (r, c) is
\* added at offset (r - (binStart - pad), c - (binEnd - pad)).
C16_EdgeBlockOffsetStep ==
    [][\A c \in Names :
          (/\ tasks'[c].it = tasks[c].it + 1
           /\ tasks'[c].last.kind = "added"
           /\ ~args.rescale
           /\ pc \in {"obs", "ctrl"}) =>
             LET lo_left == tasks'[c].last.w[1] - PadBins
                 lo_right == tasks'[c].last.w[2] - PadBins
                 block == [nr |-> 2 * PadBins + 1, nc |-> 2 * PadBins + 1,
                           at |-> [ij \in Cells(2 * PadBins + 1, 2 * PadBins + 1) |->
                                     IF /\ lo_left + ij[1] \in 0..(NBins - 1)
                                        /\ lo_right + ij[2] \in 0..(NBins - 1)
                                     THEN NanToNum(get_data(c, args.unbalanced, args.local,
                                                            lo_left + ij[1],
                                                            lo_right + ij[2]))[1]
                                     ELSE 0]]
             IN  tasks'[c].mymap = MatAdd(tasks[c].mymap, block)]_vars

\* C17: in local mode a chromosome's task takes one window per locus of the
\* chromosome, a single locus included: a task that has returned has run
\* the loop once for each of its loci; and for a two-sided table, once for
\* each of its pairs.
C17_OneWindowPerLocus ==
    \A k \in 1..Len(fchroms) :
        (/\ pc = "obs"
         /\ tasks[fchroms[k]].st = "done"
         /\ (args.local /\ args.anchor = <<>>) \/ ~combinations)
            => tasks[fchroms[k]].it = Len(SelectChrom(mids, fchroms[k]))

\* C18: by window, when the loop has ended for a locus with no window
\* aggregated (n = 0), the task goes on (or returns) and keeps for that locus
\* an all-zero map of the canonical shape.
C18_ZeroCountLocusStep ==
    [][\A c \in Names :
          (/\ pc \in BWPasses
           /\ tasks[c].st = "loop"
           /\ tasks[c].wins = <<>>
           /\ tasks[c].n = 0
           /\ tasks'[c] # tasks[c]) =>
             /\ tasks'[c].st \in {"loop", "done"}
             /\ Len(tasks'[c].mymaps) = Len(tasks[c].mymaps) + 1
             /\ tasks'[c].mymaps[Len(tasks'[c].mymaps)]
                   = [nr |-> 2 * PadBins + 1, nc |-> 2 * PadBins + 1,
                      at |-> [ij \in Cells(2 * PadBins + 1, 2 * PadBins + 1) |-> Flt(0)]]]_vars

====
